---- MODULE Spec2Model ----
(***************************************************************************)
(* Model of esphomerelease/changelog.py: generate() collects the pull      *)
(* requests between two release points with concurrent jobs, sorts them by *)
(* merge time, classifies the rendered lines by label and assembles the    *)
(* changelog document.  Strings are modelled as strings: a rendered line   *)
(* is the text the code builds, the document is the list outp and its      *)
(* "\n".join.                                                              *)
(***************************************************************************)
EXTENDS Integers, Sequences, FiniteSets, TLC

VARIABLES
    list_,           \* project.prs_between(base, head): the PR numbers
    prs,             \* project.get_pr: PR number -> labels, milestone, merged_at
    base_version,    \* parameters of generate()
    head_version,
    prerelease,
    markdown,
    with_sections,
    include_author,
    pending,         \* jobs of process_asynchronously that have not run yet
    lines,           \* List[Tuple[PullRequest, List[str]]], shared by the jobs
    changes,         \* the unified list
    label_groups,    \* defaultdict(list), in insertion order
    outp,            \* the blocks of the document
    result,          \* the returned string
    pc               \* "load" while the jobs run, "done" after the return

vars == <<list_, prs, base_version, head_version, prerelease, markdown,
          with_sections, include_author, pending, lines, changes,
          label_groups, outp, result, pc>>

----------------------------------------------------------------------------
(* Bounds and input universes *)

NumPRs == 2

\* merge timestamps: NumPRs values give every order pattern of NumPRs records
Times == 1..NumPRs

----------------------------------------------------------------------------
(* Module constants of changelog.py *)

LABEL_HEADERS ==
    << <<"new-feature", "New Features">>,
       <<"new-component", "New Components">>,
       <<"new-platform", "New Platforms">>,
       <<"breaking-change", "Breaking Changes">>,
       <<"cherry-picked", "Beta Changes">>,
       <<"notable-change", "Notable Changes">> >>

LINE_LABELS ==
    <<"new-feature", "new-component", "new-platform", "breaking-change",
      "notable-change">>

DEPENDENCY_LABELS == <<"dependencies">>

----------------------------------------------------------------------------
(* Sequence helpers: Python's in, list.remove, str.join, str * int *)

Range(s) == {s[i] : i \in DOMAIN s}

Contains(s, x) == \E i \in DOMAIN s : s[i] = x

\* list.remove(x): drops the first occurrence of x
Remove(s, x) ==
    LET i == CHOOSE k \in DOMAIN s : s[k] = x /\ \A j \in 1..(k - 1) : s[j] # x
    IN  SubSeq(s, 1, i - 1) \o SubSeq(s, i + 1, Len(s))

RECURSIVE Join(_, _)
Join(parts, sep) ==
    IF parts = <<>> THEN ""
    ELSE IF Len(parts) = 1 THEN parts[1]
    ELSE parts[1] \o sep \o Join(Tail(parts), sep)

RECURSIVE Repeat(_, _)
Repeat(n, c) == IF n = 0 THEN "" ELSE c \o Repeat(n - 1, c)

----------------------------------------------------------------------------
(* model.Version: (major, minor, patch, beta).  Ordered lexicographically   *)
(* over (major, minor, patch); a non-beta version is greater than the beta *)
(* version of the same (major, minor, patch).                              *)

Ver(ma, mi, pa, b) == [major |-> ma, minor |-> mi, patch |-> pa, beta |-> b]

VersionLT(a, b) ==
    \/ a.major < b.major
    \/ a.major = b.major /\ a.minor < b.minor
    \/ a.major = b.major /\ a.minor = b.minor /\ a.patch < b.patch
    \/ a.major = b.major /\ a.minor = b.minor /\ a.patch = b.patch
       /\ a.beta /\ ~b.beta

VersionLE(a, b) == a = b \/ VersionLT(a, b)

VersionGT(a, b) == VersionLT(b, a)

\* Version.parse: the milestone titles that have the version shape
ParsedTitles ==
    [t \in {"2023.12.0", "2024.2.1", "2024.3.0b1", "2024.3.0"} |->
        CASE t = "2023.12.0"  -> Ver(2023, 12, 0, FALSE)
          [] t = "2024.2.1"   -> Ver(2024, 2, 1, FALSE)
          [] t = "2024.3.0b1" -> Ver(2024, 3, 0, TRUE)
          [] t = "2024.3.0"   -> Ver(2024, 3, 0, FALSE)]

\* FALSE is Version.parse raising ValueError
CanParse(title) == title \in DOMAIN ParsedTitles

VersionParse(title) == ParsedTitles[title]

\* str(version)
VersionStr(v) ==
    ToString(v.major) \o "." \o ToString(v.minor) \o "." \o ToString(v.patch)
        \o (IF v.beta THEN "b1" ELSE "")

Versions == {ParsedTitles[t] : t \in DOMAIN ParsedTitles}

----------------------------------------------------------------------------
(* The project and the fields of a pull request that only identify it *)

ProjectShortname == "esphome"

PrTitle(n) == "Change " \o ToString(n)

PrHtmlUrl(n) == "https://github.com/esphome/esphome/pull/" \o ToString(n)

PrUserLogin(n) == "user" \o ToString(n)

PrUserHtmlUrl(n) == "https://github.com/user" \o ToString(n)

\* datetime.now()
Now == [month |-> "November", day |-> 2]

----------------------------------------------------------------------------
(* format_heading and format_line.  The backquote of the plain-markup roles *)
(* is written ' here: a TLA+ string cannot hold a backquote.                *)

HeadingPrefix(level) ==
    CASE level = 1 -> "="
      [] level = 2 -> "-"
      [] level = 3 -> "^"

format_heading(title, md, level) ==
    IF md
    THEN Repeat(level, "#") \o " " \o title \o "\n"
    ELSE title \o "\n" \o Repeat(Len(title), HeadingPrefix(level)) \o "\n"

format_line(n, md, author) ==
    LET pr_link ==
            IF md
            THEN "[" \o ProjectShortname \o "#" \o ToString(n) \o "]("
                     \o PrHtmlUrl(n) \o ")"
            ELSE ":" \o ProjectShortname \o "pr:'" \o ToString(n) \o "'"
        user_link ==
            IF md
            THEN "[@" \o PrUserLogin(n) \o "](" \o PrUserHtmlUrl(n) \o ")"
            ELSE ":ghuser:'" \o PrUserLogin(n) \o "'"
        line == "- " \o PrTitle(n) \o " " \o pr_link
    IN  IF author THEN line \o " by " \o user_link ELSE line

----------------------------------------------------------------------------
(* generate.job: the eligibility filter of one pull request *)

\* only the first label is looked at
IgnoredFirstLabelOnly(labels) == labels # <<>> /\ labels[1] = "reverted"

\* "reverted" in labels
Ignored(labels) == Contains(labels, "reverted")

\* a slip in the boundary: a pick equal to the base version passes
NotInReleaseStrict(pick_version) ==
    VersionLT(pick_version, base_version) \/ VersionGT(pick_version, head_version)

\* the range test of a cherry-picked record whose milestone parses
NotInRelease(pick_version) ==
    VersionLE(pick_version, base_version) \/ VersionGT(pick_version, head_version)

\* the label is not removed
UnparsableLabelsKept(labels) == labels

\* labels after the except ValueError branch
UnparsableLabels(labels) == Remove(labels, "cherry-picked")

\* the record without milestone is dropped
NoMilestoneDropped(n, labels) == <<>>

\* the except TypeError branch: the record goes on with its labels
NoMilestone(n, labels) == << [pr |-> n, labels |-> labels] >>

\* what job(n) appends to lines: <<>> on return, else one (pr, labels) tuple
JobResult(n) ==
    LET labels == prs[n].labels
        milestone == prs[n].milestone
    IN  IF Ignored(labels) THEN <<>>
        ELSE IF Contains(labels, "cherry-picked")
        THEN IF milestone = <<>>
             THEN NoMilestone(n, labels)
             ELSE IF ~CanParse(milestone[1])
             THEN << [pr |-> n, labels |-> UnparsableLabels(labels)] >>
             ELSE IF NotInRelease(VersionParse(milestone[1]))
             THEN <<>>
             ELSE << [pr |-> n, labels |-> labels] >>
        ELSE << [pr |-> n, labels |-> labels] >>

Job(n) ==
    /\ pc = "load"
    /\ n \in pending
    /\ pending' = pending \ {n}
    /\ lines' = lines \o JobResult(n)
    /\ UNCHANGED <<list_, prs, base_version, head_version, prerelease,
                   markdown, with_sections, include_author, changes,
                   label_groups, outp, result, pc>>

----------------------------------------------------------------------------
(* lines.sort(key=merged_at): a stable sort *)

\* a sort on the wrong field
SortKeyByNumber(x) == x.pr

SortKey(x) == prs[x.pr].merged_at

\* x goes after every element whose key is not greater
RECURSIVE InsertByKey(_, _)
InsertByKey(s, x) ==
    IF s = <<>> THEN <<x>>
    ELSE IF SortKey(x) < SortKey(s[Len(s)])
    THEN Append(InsertByKey(SubSeq(s, 1, Len(s) - 1), x), s[Len(s)])
    ELSE Append(s, x)

RECURSIVE StableSort(_)
StableSort(s) ==
    IF s = <<>> THEN <<>>
    ELSE InsertByKey(StableSort(SubSeq(s, 1, Len(s) - 1)), s[Len(s)])

\* the sort is left out
NoSort(s) == s

SortLines(s) == StableSort(s)

----------------------------------------------------------------------------
(* The serialisation loop over the sorted lines *)

\* the parenthetical tags of a line
LineTags(labels) ==
    LET keep(label) == Contains(LINE_LABELS, label)
        kept == SelectSeq(labels, keep)
    IN  [i \in DOMAIN kept |-> "(" \o kept[i] \o ")"]

Msg(x) ==
    Join(<<format_line(x.pr, markdown, include_author)>> \o LineTags(x.labels),
         " ")

HasDependencyLabel(labels) ==
    \E i \in DOMAIN DEPENDENCY_LABELS : Contains(labels, DEPENDENCY_LABELS[i])

\* the section-mode flag is not looked at
InChangesNoDependency(labels) == ~HasDependencyLabel(labels)

\* the condition under which a line is appended to changes
InChanges(labels) == ~with_sections \/ ~HasDependencyLabel(labels)

RECURSIVE Changes(_)
Changes(s) ==
    IF s = <<>> THEN <<>>
    ELSE LET x == s[Len(s)]
             rest == Changes(SubSeq(s, 1, Len(s) - 1))
         IN  IF InChanges(x.labels) THEN Append(rest, Msg(x)) ELSE rest

\* label_groups[label]: the defaultdict inserts a missing key
Touch(lg, label) ==
    IF \E i \in DOMAIN lg : lg[i].label = label
    THEN lg
    ELSE Append(lg, [label |-> label, prs |-> <<>>])

GroupIndex(lg, label) == CHOOSE i \in DOMAIN lg : lg[i].label = label

GroupAppend(lg, label, msg) ==
    LET t == Touch(lg, label)
        i == GroupIndex(t, label)
    IN  [t EXCEPT ![i].prs = Append(@, msg)]

Group(lg, label) ==
    IF \E i \in DOMAIN lg : lg[i].label = label
    THEN lg[GroupIndex(lg, label)].prs
    ELSE <<>>

\* for label in labels: label_groups[label].append(msg)
RECURSIVE AppendToGroups(_, _, _)
AppendToGroups(lg, labels, msg) ==
    IF labels = <<>> THEN lg
    ELSE AppendToGroups(GroupAppend(lg, Head(labels), msg), Tail(labels), msg)

RECURSIVE Groups(_)
Groups(s) ==
    IF s = <<>> THEN <<>>
    ELSE LET x == s[Len(s)]
         IN  AppendToGroups(Groups(SubSeq(s, 1, Len(s) - 1)), x.labels, Msg(x))

----------------------------------------------------------------------------
(* The document *)

\* the negation of beta is lost
IsPatchReleaseBetaSlip == head_version.patch # 0 /\ head_version.beta

\* head_version.patch != 0 and not head_version.beta; head_version is a
\* Version, as the signature declares, so "is not None" holds
IsPatchRelease == head_version.patch # 0 /\ ~head_version.beta

ReleaseHeading ==
    format_heading("Release " \o VersionStr(head_version) \o " - " \o Now.month
                       \o " " \o ToString(Now.day), FALSE, 2)

\* one pass of the loop over LABEL_HEADERS.items()
HeaderBlock(lg, i) ==
    LET label == LABEL_HEADERS[i][1]
        title == LABEL_HEADERS[i][2]
        group == Group(lg, label)
    IN  IF ~prerelease /\ title = "Beta Changes" THEN <<>>
        ELSE IF group = <<>> THEN <<>>
        ELSE <<format_heading(title, markdown, 3)>> \o group \o <<"">>

RECURSIVE HeaderBlocks(_, _)
HeaderBlocks(lg, i) ==
    IF i = 0 THEN <<>> ELSE HeaderBlocks(lg, i - 1) \o HeaderBlock(lg, i)

\* the keys the loop's label_groups[label] leaves in the defaultdict
RECURSIVE HeaderTouched(_, _)
HeaderTouched(lg, i) ==
    IF i = 0 THEN lg
    ELSE LET before == HeaderTouched(lg, i - 1)
         IN  IF ~prerelease /\ LABEL_HEADERS[i][2] = "Beta Changes"
             THEN before
             ELSE Touch(before, LABEL_HEADERS[i][1])

\* the headings before the unified list
Headings(lg) ==
    IF ~with_sections THEN <<>>
    ELSE IF IsPatchRelease
    THEN IF ~markdown THEN <<ReleaseHeading>> ELSE <<>>
    ELSE <<format_heading("Full list of changes", markdown, 2)>>
             \o HeaderBlocks(lg, Len(LABEL_HEADERS))
             \o <<format_heading("All changes", markdown, 3)>>

Indent(s) == [i \in DOMAIN s |-> "    " \o s[i]]

\* the unified list and the empty line after it
Body(ch) ==
    (IF with_sections
     THEN IF markdown
          THEN <<"<details>", "<summary>Show</summary>", "">> \o ch
                   \o <<"</details>">>
          ELSE <<".. collapse:: Show", "    :open:", "">> \o Indent(ch)
     ELSE ch) \o <<"">>

\* the lines of the groups whose label is in DEPENDENCY_LABELS, in the order
\* of label_groups.items()
RECURSIVE DependencyPrs(_)
DependencyPrs(lg) ==
    IF lg = <<>> THEN <<>>
    ELSE LET last == lg[Len(lg)]
             rest == DependencyPrs(SubSeq(lg, 1, Len(lg) - 1))
         IN  IF Contains(DEPENDENCY_LABELS, last.label)
             THEN rest \o last.prs
             ELSE rest

\* the block is built in every mode
WithDependencyBlockAlways == TRUE

\* the condition under which the dependency block is looked at
WithDependencyBlock == with_sections

DependencyBlock(lg) ==
    LET depdendency_prs == DependencyPrs(lg)
    IN  IF ~WithDependencyBlock \/ depdendency_prs = <<>> THEN <<>>
        ELSE <<format_heading("Dependency Changes", markdown, 3)>>
             \o (IF markdown
                 THEN <<"<details>", "<summary>Show</summary>", "">>
                          \o depdendency_prs \o <<"</details>">>
                 ELSE <<".. collapse:: Show", "">> \o Indent(depdendency_prs)
                          \o <<"">>)

Document(ch, lg) == Headings(lg) \o Body(ch) \o DependencyBlock(lg)

\* label_groups when generate returns
FinalGroups(lg) ==
    IF with_sections /\ ~IsPatchRelease
    THEN HeaderTouched(lg, Len(LABEL_HEADERS))
    ELSE lg

----------------------------------------------------------------------------
(* generate() after process_asynchronously has returned: sort, serialise,  *)
(* assemble, join                                                          *)

Render ==
    /\ pc = "load"
    /\ pending = {}
    /\ LET sorted == SortLines(lines)
           ch == Changes(sorted)
           lg == Groups(sorted)
           doc == Document(ch, lg)
       IN  /\ lines' = sorted
           /\ changes' = ch
           /\ label_groups' = FinalGroups(lg)
           /\ outp' = doc
           /\ result' = Join(doc, "\n")
    /\ pc' = "done"
    /\ UNCHANGED <<list_, prs, base_version, head_version, prerelease,
                   markdown, with_sections, include_author, pending>>

----------------------------------------------------------------------------------------------------------------------------------------
(* The inputs *)

InputLabels ==
    {"reverted", "cherry-picked", "dependencies", "new-feature",
     "breaking-change"}

\* label lists of a record: at most two distinct labels, in either order
LabelLists ==
    {<<>>} \cup {<<a>> : a \in InputLabels}
           \cup {<<p[1], p[2]>> : p \in {q \in InputLabels \X InputLabels : q[1] # q[2]}}

\* pr.milestone: <<>> is None, <<t>> a milestone with title t
Milestones == {<<>>, <<"latest">>} \cup {<<t>> : t \in DOMAIN ParsedTitles}

\* the milestone is read only of a record that carries cherry-picked
MilestonesOf(labels) ==
    IF Contains(labels, "cherry-picked") THEN Milestones ELSE {<<>>}

PullRequests(LL, T) ==
    {[labels |-> x[1], milestone |-> x[2], merged_at |-> t] :
        x \in UNION {{<<l, m>> : m \in MilestonesOf(l)} : l \in LL}, t \in T}

\* the state when the jobs are handed to process_asynchronously
Start(n) ==
    /\ list_ = [i \in 1..n |-> i]
    /\ pending = 1..n
    /\ lines = <<>>
    /\ changes = <<>>
    /\ label_groups = <<>>
    /\ outp = <<>>
    /\ result = ""
    /\ pc = "load"

\* Ordering family: NumPRs records with every pattern of merge times, no
\* cherry-picked record (base_version and prerelease are then not read),
\* include_author at its default.
OrderLabelLists ==
    {<<>>, <<"reverted">>, <<"new-feature", "dependencies">>,
     <<"new-feature", "breaking-change">>, <<"breaking-change", "new-feature">>}

Init ==
    /\ Start(NumPRs)
    /\ prs \in [1..NumPRs -> PullRequests(OrderLabelLists, Times)]
    /\ base_version = Ver(2023, 12, 0, FALSE)
    /\ head_version \in {Ver(2024, 2, 1, FALSE), Ver(2024, 3, 0, FALSE)}
    /\ prerelease = FALSE
    /\ markdown \in BOOLEAN
    /\ with_sections \in BOOLEAN
    /\ include_author = TRUE

\* Filter family: one record with every label list, milestone, base and head
\* version, and NumOthers plain records merged around it.
NumOthers == 0

OtherLabelLists == {<<>>, <<"new-feature", "dependencies">>}

InitFilter ==
    /\ Start(1 + NumOthers)
    /\ \E first \in PullRequests(LabelLists, 1..(1 + NumOthers)),
          others \in [2..(1 + NumOthers) ->
                         PullRequests(OtherLabelLists, 1..(1 + NumOthers))] :
          prs = [i \in 1..(1 + NumOthers) |-> IF i = 1 THEN first ELSE others[i]]
    /\ base_version \in Versions
    /\ head_version \in Versions
    /\ prerelease \in BOOLEAN
    /\ markdown \in BOOLEAN
    /\ with_sections \in BOOLEAN
    /\ include_author \in BOOLEAN

Next == (\E n \in pending : Job(n)) \/ Render

Spec == Init /\ [][Next]_vars

SpecFilter == InitFilter /\ [][Next]_vars

----------------------------------------------------------------------------------------------------------------------------------------
(* Vocabulary of the properties *)

Done == pc = "done"

PRs == 1..Len(list_)

TimeOf(n) == prs[n].merged_at

Included(n) == \E i \in DOMAIN lines : lines[i].pr = n

\* the position of record n in lines, 0 when it is not there
PosOf(n) ==
    IF Included(n) THEN CHOOSE i \in DOMAIN lines : lines[i].pr = n ELSE 0

EntryOf(n) == lines[PosOf(n)]

MsgOf(n) == Msg(EntryOf(n))

\* the label lists as far as a line shows them
ShownLabelLists ==
    LET shown(l) == Contains(LINE_LABELS, l)
    IN  {SelectSeq(labels, shown) : labels \in LabelLists}

\* every text a line of record n can have, plain or indented
MentionsOf(n) ==
    LET plain == {Msg([pr |-> n, labels |-> l]) : l \in ShownLabelLists}
    IN  plain \cup {"    " \o m : m \in plain}

Mentions == [n \in PRs |-> MentionsOf(n)]

\* the record a text is a line of, 0 when it is no line; M is Mentions
OwnerIn(M, text) ==
    IF \E n \in DOMAIN M : text \in M[n]
    THEN CHOOSE n \in DOMAIN M : text \in M[n]
    ELSE 0

Owners(M, s) == [i \in DOMAIN s |-> OwnerIn(M, s[i])]

AppearsIn(M, s, n) == \E i \in DOMAIN s : s[i] \in M[n]

AppearsNowhere(n) ==
    LET M == Mentions
    IN  /\ ~AppearsIn(M, changes, n)
        /\ \A k \in DOMAIN label_groups : ~AppearsIn(M, label_groups[k].prs, n)
        /\ ~AppearsIn(M, outp, n)

HeadingTitles ==
    {LABEL_HEADERS[i][2] : i \in DOMAIN LABEL_HEADERS}
        \cup {"Full list of changes", "All changes", "Dependency Changes"}

ReleaseTitle(v) ==
    "Release " \o VersionStr(v) \o " - " \o Now.month \o " " \o ToString(Now.day)

\* every heading a document can hold
AllHeadings ==
    {format_heading(t, md, l) :
        t \in HeadingTitles \cup {ReleaseTitle(v) : v \in Versions},
        md \in BOOLEAN, l \in 1..3}

IsHeading(text) == text \in AllHeadings

\* blocks that belong to no heading and to no line
Markup ==
    {"<details>", "<summary>Show</summary>", "</details>",
     ".. collapse:: Show", "    :open:"}

\* text is in the block of outp under the level-3 heading title: between the
\* heading and the text there is no other heading, and no empty block but
\* the one before the first line
ListedUnder(title, text) ==
    \E i, j \in DOMAIN outp :
        /\ i < j
        /\ outp[i] = format_heading(title, markdown, 3)
        /\ outp[j] \in {text, "    " \o text}
        /\ \A k \in (i + 1)..(j - 1) :
              /\ ~IsHeading(outp[k])
              /\ outp[k] = "" => \A m \in (i + 1)..k : outp[m] \in Markup \cup {""}

HeadingsOf(s) == SelectSeq(s, IsHeading)

----------------------------------------------------------------------------
\* s holds lines of included records only, in the order of lines and in
\* ascending merged_at order; M is Mentions
KeepsOrder(M, s) ==
    LET o == Owners(M, s)
    IN  /\ \A i \in DOMAIN s : o[i] # 0 /\ PosOf(o[i]) # 0
        /\ \A i \in 1..(Len(s) - 1) :
              /\ PosOf(o[i]) < PosOf(o[i + 1])
              /\ TimeOf(o[i]) <= TimeOf(o[i + 1])

\* C1: when generate returns, lines is in ascending merged_at order, and the
\* unified list, every label group and every run of lines of the document
\* (the label sections, the unified list, the Dependency Changes block) keep
\* the order of lines: classification never reorders.
C1_MergeOrder ==
    Done =>
        LET M == Mentions
            o == Owners(M, outp)
        IN  /\ \A i \in 1..(Len(lines) - 1) :
                  TimeOf(lines[i].pr) <= TimeOf(lines[i + 1].pr)
            /\ KeepsOrder(M, changes)
            /\ \A k \in DOMAIN label_groups : KeepsOrder(M, label_groups[k].prs)
            /\ \A i \in 1..(Len(outp) - 1) :
                  (o[i] # 0 /\ o[i + 1] # 0)
                      => /\ PosOf(o[i]) < PosOf(o[i + 1])
                         /\ TimeOf(o[i]) <= TimeOf(o[i + 1])

\* two records merged in the opposite order of their numbers, both in the
\* unified list and in one group
C1_Witness ==
    /\ Done
    /\ Len(lines) >= 2
    /\ lines[1].pr > lines[2].pr
    /\ TimeOf(lines[1].pr) < TimeOf(lines[2].pr)
    /\ Len(changes) >= 2
    /\ \E k \in DOMAIN label_groups : Len(label_groups[k].prs) >= 2

----------------------------------------------------------------------------
\* what the run of the jobs one after the other, in the order of list_,
\* returns
RECURSIVE SequentialLines(_)
SequentialLines(i) ==
    IF i = 0 THEN <<>> ELSE SequentialLines(i - 1) \o JobResult(list_[i])

SequentialResult ==
    LET sorted == SortLines(SequentialLines(Len(list_)))
    IN  Join(Document(Changes(sorted), Groups(sorted)), "\n")

DistinctTimes ==
    \A i, j \in DOMAIN lines : i # j => TimeOf(lines[i].pr) # TimeOf(lines[j].pr)

\* C2 as stated: for every order in which the jobs append, generate returns
\* the document of the sequential run, also when two included records have
\* the same merged_at.
C2_Deterministic == Done => result = SequentialResult

\* C2 amended: when no two included records have the same merged_at, every
\* order in which the jobs append gives the document of the sequential run.
C2_DeterministicDistinctTimes ==
    (Done /\ DistinctTimes) => result = SequentialResult

\* two included records with distinct merge times, the later one first in
\* list_
C2_Witness ==
    /\ Done
    /\ Len(lines) >= 2
    /\ DistinctTimes
    /\ lines[1].pr > lines[2].pr
    /\ result # ""

----------------------------------------------------------------------------
CherryPicked(n) == Contains(prs[n].labels, "cherry-picked")

Reverted(n) == Contains(prs[n].labels, "reverted")

Parsable(n) == prs[n].milestone # <<>> /\ CanParse(prs[n].milestone[1])

Unparsable(n) == prs[n].milestone # <<>> /\ ~CanParse(prs[n].milestone[1])

\* C3: a cherry-picked, not reverted record whose milestone parses to
\* pick_version is included if and only if base_version < pick_version <=
\* head_version; otherwise it is in no group, not in the unified list and
\* nowhere in the document.
C3_CherryPickRange ==
    Done =>
        \A n \in PRs :
            (CherryPicked(n) /\ ~Reverted(n) /\ Parsable(n)) =>
                LET pick_version == VersionParse(prs[n].milestone[1])
                    in_range == /\ VersionLT(base_version, pick_version)
                                /\ VersionLE(pick_version, head_version)
                IN  /\ Included(n) <=> in_range
                    /\ in_range => AppearsIn(Mentions, outp, n)
                    /\ ~in_range => AppearsNowhere(n)

\* a record picked for the head version itself is included
C3_Witness ==
    /\ Done
    /\ \E n \in PRs :
          /\ CherryPicked(n) /\ ~Reverted(n) /\ Parsable(n)
          /\ VersionParse(prs[n].milestone[1]) = head_version
          /\ VersionLT(base_version, head_version)
          /\ Included(n)

----------------------------------------------------------------------------
\* C4: a record with the label reverted is not in lines, in no group, not in
\* the unified list and nowhere in the document, whatever its other labels,
\* its milestone, the format and the section mode.
C4_RevertedExcluded ==
    Done => \A n \in PRs : Reverted(n) => ~Included(n) /\ AppearsNowhere(n)

\* a reverted record that is also cherry-picked for a version in range
C4_Witness ==
    /\ Done
    /\ \E n \in PRs :
          /\ prs[n].labels = <<"cherry-picked", "reverted">>
          /\ Parsable(n)
          /\ VersionLT(base_version, VersionParse(prs[n].milestone[1]))
          /\ VersionLE(VersionParse(prs[n].milestone[1]), head_version)
          /\ with_sections /\ prerelease

----------------------------------------------------------------------------
WithoutCherryPicked(labels) ==
    LET other(l) == l # "cherry-picked" IN SelectSeq(labels, other)

HasDependency(n) == Contains(prs[n].labels, "dependencies")

\* C5 as stated (of a record that passed the reverted filter): a
\* cherry-picked record whose milestone does not parse is included whatever
\* the versions are, its labels are the others, it is not in the
\* cherry-picked group nor under "Beta Changes", and it is in the unified
\* list.
C5_UnparsableInUnifiedList ==
    Done =>
        \A n \in PRs :
            (CherryPicked(n) /\ ~Reverted(n) /\ Unparsable(n)) =>
                /\ Included(n)
                /\ EntryOf(n).labels = WithoutCherryPicked(prs[n].labels)
                /\ ~Contains(Group(label_groups, "cherry-picked"), MsgOf(n))
                /\ ~ListedUnder("Beta Changes", MsgOf(n))
                /\ Contains(changes, MsgOf(n))

\* C5 amended: a cherry-picked record that is not reverted and whose
\* milestone does not parse is included whatever the versions are, its
\* labels are the others, it is not in the cherry-picked group nor under
\* "Beta Changes"; it is in the unified list unless section mode is on and it
\* carries a dependency label, and then it is under "Dependency Changes".
C5_UnparsableIncluded ==
    Done =>
        \A n \in PRs :
            (CherryPicked(n) /\ ~Reverted(n) /\ Unparsable(n)) =>
                /\ Included(n)
                /\ EntryOf(n).labels = WithoutCherryPicked(prs[n].labels)
                /\ ~Contains(Group(label_groups, "cherry-picked"), MsgOf(n))
                /\ ~ListedUnder("Beta Changes", MsgOf(n))
                /\ \A l \in Range(WithoutCherryPicked(prs[n].labels)) :
                      Contains(Group(label_groups, l), MsgOf(n))
                /\ Contains(changes, MsgOf(n))
                      <=> ~(with_sections /\ HasDependency(n))
                /\ (with_sections /\ HasDependency(n))
                      => ListedUnder("Dependency Changes", MsgOf(n))

\* a pre-release document with sections, the base version above the head
\* version, and a record with an unparsable milestone and a second label
C5_Witness ==
    /\ Done
    /\ with_sections /\ prerelease /\ ~IsPatchRelease
    /\ VersionLT(head_version, base_version)
    /\ \E n \in PRs :
          /\ prs[n].labels = <<"new-feature", "cherry-picked">>
          /\ Unparsable(n)
          /\ Contains(changes, MsgOf(n))
          /\ ListedUnder("New Features", MsgOf(n))

----------------------------------------------------------------------------
----------------------------------------------------------------------------
DependencyLine(n) == Included(n) /\ Contains(EntryOf(n).labels, "dependencies")

\* C7: with section mode on, an included record with a dependency label is
\* not in the unified list, is in the group of every label it carries and
\* under "Dependency Changes" (and under "New Features" in the full document
\* when it carries new-feature); with section mode off it is in the unified
\* list.
C7_DependencyLines ==
    Done =>
        \A n \in PRs :
            DependencyLine(n) =>
                /\ with_sections =>
                      /\ ~Contains(changes, MsgOf(n))
                      /\ ~ListedUnder("All changes", MsgOf(n))
                      /\ \A l \in Range(EntryOf(n).labels) :
                            Contains(Group(label_groups, l), MsgOf(n))
                      /\ ListedUnder("Dependency Changes", MsgOf(n))
                      /\ (/\ Contains(EntryOf(n).labels, "new-feature")
                          /\ ~(head_version.patch # 0 /\ ~head_version.beta))
                            => ListedUnder("New Features", MsgOf(n))
                /\ ~with_sections =>
                      /\ Contains(changes, MsgOf(n))
                      /\ Contains(outp, MsgOf(n))

\* the record {new-feature, dependencies} in a full document with sections
C7_Witness ==
    /\ Done
    /\ with_sections
    /\ \E n \in PRs :
          /\ prs[n].labels = <<"new-feature", "dependencies">>
          /\ ListedUnder("New Features", MsgOf(n))
          /\ ListedUnder("Dependency Changes", MsgOf(n))
          /\ ~Contains(changes, MsgOf(n))

----------------------------------------------------------------------------
\* the tags of the inline-annotation labels a record carries, in the order of
\* LINE_LABELS
FixedOrderTags(labels) ==
    LET carried(l) == Contains(labels, l)
        kept == SelectSeq(LINE_LABELS, carried)
    IN  [i \in DOMAIN kept |-> "(" \o kept[i] \o ")"]

\* C8: the tags of a line are the record's inline-annotation labels in the
\* order of LINE_LABELS, whatever the order of the labels on the record.
C8_FixedTagOrder ==
    Done =>
        \A n \in PRs :
            Included(n) =>
                MsgOf(n) =
                    Join(<<format_line(n, markdown, include_author)>>
                             \o FixedOrderTags(EntryOf(n).labels), " ")

----------------------------------------------------------------------------
PatchDocument ==
    /\ Done
    /\ with_sections /\ ~markdown
    /\ head_version.patch # 0 /\ ~head_version.beta

ReleaseHeadingText == format_heading(ReleaseTitle(head_version), FALSE, 2)

\* C9 as stated: the plain-markup document of a non-beta patch release with
\* section mode on has exactly one heading, the dated release heading,
\* whatever the records are.
C9_OneHeading == PatchDocument => HeadingsOf(outp) = <<ReleaseHeadingText>>

\* C9 amended: the plain-markup document of a non-beta patch release with
\* section mode on starts with the dated release heading and has no label
\* sub-section; its only other heading is "Dependency Changes", there exactly
\* when an included record carries a dependency label.
C9_PatchHeadings ==
    PatchDocument =>
        /\ outp[1] = ReleaseHeadingText
        /\ HeadingsOf(outp) =
              <<ReleaseHeadingText>>
                  \o (IF \E n \in PRs : DependencyLine(n)
                      THEN <<format_heading("Dependency Changes", FALSE, 3)>>
                      ELSE <<>>)

\* a patch document of a record with header labels and a dependency record
C9_Witness ==
    /\ PatchDocument
    /\ \E n \in PRs : Included(n) /\ Contains(EntryOf(n).labels, "new-feature")
    /\ \E n \in PRs : DependencyLine(n)

----------------------------------------------------------------------------
DependencyHeadingEmitted ==
    Contains(outp, format_heading("Dependency Changes", markdown, 3))

\* the dependency lines in the order of lines
DependencyMsgs ==
    LET dep(x) == Contains(x.labels, "dependencies")
        kept == SelectSeq(lines, dep)
    IN  [i \in DOMAIN kept |-> Msg(kept[i])]

\* C10 as stated: the "Dependency Changes" heading is emitted exactly when an
\* included record carries a dependency label, whatever the section-mode
\* flag, the document shape and the format are.
C10_DependencyBlockAnyMode ==
    Done => (DependencyHeadingEmitted <=> \E n \in PRs : DependencyLine(n))

\* C10 amended: the "Dependency Changes" heading is emitted exactly when
\* section mode is on and an included record carries a dependency label,
\* whatever the document shape and the format are; it then follows the empty
\* block that ends the main body and is followed by the dependency lines in a
\* collapsible block that ends the document.
C10_DependencyBlock ==
    Done =>
        LET block ==
                IF markdown
                THEN <<"### Dependency Changes\n", "<details>",
                       "<summary>Show</summary>", "">> \o DependencyMsgs
                         \o <<"</details>">>
                ELSE <<"Dependency Changes\n^^^^^^^^^^^^^^^^^^\n",
                       ".. collapse:: Show", "">>
                         \o [i \in DOMAIN DependencyMsgs |->
                                "    " \o DependencyMsgs[i]]
                         \o <<"">>
            start == Len(outp) - Len(block)
        IN  /\ DependencyHeadingEmitted
                  <=> (with_sections /\ \E n \in PRs : DependencyLine(n))
            /\ DependencyHeadingEmitted =>
                  /\ start >= 1
                  /\ outp[start] = ""
                  /\ SubSeq(outp, start + 1, Len(outp)) = block
                  /\ ~Contains(SubSeq(outp, 1, start), block[1])

\* a rich-markup patch document with a dependency record
C10_Witness ==
    /\ Done
    /\ with_sections /\ markdown
    /\ head_version.patch # 0 /\ ~head_version.beta
    /\ DependencyHeadingEmitted
    /\ Len(DependencyMsgs) >= 1

====
